---- MODULE Spec2Model ----
(***************************************************************************)
(* Model of the render pipelines of src/src/pipeline.rs.                   *)
(*                                                                         *)
(* The pipeline is an orchestrator: every method is a straight-line list   *)
(* of calls on its collaborators (render targets, GPU state, textures,     *)
(* shader programs, the full-screen quad), cut short by an early return or *)
(* by the `?` operator on a failing call.  The model keeps the pipeline    *)
(* object, the GPU context the calls act on, and the last call with its    *)
(* arguments, its result and the collaborator calls it made.               *)
(***************************************************************************)
EXTENDS Integers, Sequences, FiniteSets, TLC

VARIABLES
    pipeline,   \* Option<DeferredPipeline>: None before a successful create
    built,      \* Option of the arguments of the create call that built it
    gl,         \* the shared GPU context the pipeline issues commands to
    nextId,     \* the next fresh handle of the resource services
    ncalls,     \* the number of pipeline methods called since create
    lastCall    \* the last pipeline call: op, args, result, value, log

vars == <<pipeline, built, gl, nextId, ncalls, lastCall>>

----------------------------------------------------------------------------
(* Bounds of the model. *)

\* pipeline methods the caller calls after create in one behaviour
MaxCalls == 3

----------------------------------------------------------------------------
(* Option<T> *)

None == <<>>
Some(x) == <<x>>
IsSome(o) == Len(o) = 1
Unwrap(o) == o[1]

----------------------------------------------------------------------------
(* Values *)

\* the viewport sizes the caller passes to create and resize
Viewports == { [width |-> 800, height |-> 600],
               [width |-> 1024, height |-> 768] }

\* the default framebuffer: what is bound before any bind() call
DefaultTarget == 0
\* a uniform that was never set
Unset == -1
\* attachment index of the depth texture of a colour render target
DepthAttachment == -1

NoTexture == [target |-> 0, attachment |-> 0, width |-> 0, height |-> 0]

Texture(id, i, w, h) == [target |-> id, attachment |-> i, width |-> w, height |-> h]

UniformNames ==
    {"colorMap", "positionMap", "normalMap", "depthMap", "eyePosition",
     "lightType", "directionalLight.direction", "directionalLight.base.color",
     "directionalLight.base.ambientIntensity",
     "directionalLight.base.diffuseIntensity"}

\* the handle of the one shadow render target that exists outside the pipeline
ShadowTargetId == 1

\* light::DirectionalLight values the caller passes in
DirectionalLights ==
    { [name |-> "L1", direction |-> 3, color |-> 5, ambient_intensity |-> 7,
       diffuse_intensity |-> 1,
       shadow_render_target |-> Some([id |-> ShadowTargetId])],
      [name |-> "L2", direction |-> 4, color |-> 6, ambient_intensity |-> 8,
       diffuse_intensity |-> 2,
       shadow_render_target |-> None] }

\* camera::Camera values the caller passes in
Cameras == { [position |-> 1], [position |-> 2] }

----------------------------------------------------------------------------
(* enum Error and its From conversions *)

Ok == "Ok"
LightPassRendertargetNotAvailable == "LightPassRendertargetNotAvailable"
ShadowRendertargetNotAvailable == "ShadowRendertargetNotAvailable"

From_program_Error == "Program"
From_rendertarget_Error == "Rendertarget"

----------------------------------------------------------------------------
(* Collaborators: the resource services *)

ScreenRendertarget_create(id, w, h) == [id |-> id, width |-> w, height |-> h]

ColorRendertarget_create(id, w, h, n) ==
    [id |-> id, width |-> w, height |-> h,
     targets |-> [i \in 1..n |-> Texture(id, i - 1, w, h)],
     depth_target |-> Texture(id, DepthAttachment, w, h)]

Program_from_resource(id, path) == [id |-> id, path |-> path]

----------------------------------------------------------------------------
(* Collaborators: the GPU context.  A pipeline method is a list of commands *)
(* on it; each command is a tuple whose first element names the call.  The  *)
(* context keeps the bound render target, the depth, cull and blend state,  *)
(* the sampler slots, the uniforms of each program and, per render target,  *)
(* the light accumulated in its pixels.                                     *)

LightPassPath == "../Dust/examples/assets/shaders/light_pass"
CopyPath == "../Dust/examples/assets/shaders/copy"

Bind(t) == <<"bind", t>>
Clear(t) == <<"clear", t>>
DepthWrite(b) == <<"depth_write", b>>
DepthTest(t) == <<"depth_test", t>>
Cull(c) == <<"cull", c>>
Blend(b) == <<"blend", b>>
TextureBind(tex, slot) == <<"texture_bind", tex, slot>>
AddUniform(prog, name, value) == <<"add_uniform", prog.id, name, value, TRUE>>
Render(prog) == <<"render", prog.id, prog.path>>

Slots == 0..3

\* What one full-screen quad draw with program c[2] writes to a pixel: the
\* light program evaluates the light its uniforms describe, the copy program
\* samples the texture in the slot its colorMap names.
Shade(g, c) ==
    IF c[3] = LightPassPath
    THEN g.uniforms[c[2]]["directionalLight.base.diffuseIntensity"]
    ELSE g.fb[g.slots[g.uniforms[c[2]]["colorMap"]].target]

\* The pixel after the draw: added to what the bound target holds under
\* additive blending, replacing it otherwise.
Blended(g, c) ==
    IF g.blend = "ONE__ONE" THEN g.fb[g.bound] + Shade(g, c) ELSE Shade(g, c)

Apply(g, c) ==
    CASE c[1] = "bind"         -> [g EXCEPT !.bound = c[2]]
      [] c[1] = "clear"        -> [g EXCEPT !.fb[c[2]] = 0]
      [] c[1] = "depth_write"  -> [g EXCEPT !.depth_write = c[2]]
      [] c[1] = "depth_test"   -> [g EXCEPT !.depth_test = c[2]]
      [] c[1] = "cull"         -> [g EXCEPT !.cull = c[2]]
      [] c[1] = "blend"        -> [g EXCEPT !.blend = c[2]]
      [] c[1] = "texture_bind" -> [g EXCEPT !.slots[c[3]] = c[2]]
      [] c[1] = "add_uniform"  ->
            IF c[5] THEN [g EXCEPT !.uniforms[c[2]][c[3]] = c[4]] ELSE g
      [] c[1] = "render"       -> [g EXCEPT !.fb[g.bound] = Blended(g, c)]

RECURSIVE Run(_, _)
Run(g, cmds) ==
    IF cmds = <<>> THEN g ELSE Run(Apply(g, Head(cmds)), Tail(cmds))

\* the calls of a command list that return a Result
Fallible(c) == c[1] = "add_uniform"

Failed(c) == <<c[1], c[2], c[3], c[4], FALSE>>

RECURSIVE NumFallible(_)
NumFallible(cmds) ==
    IF cmds = <<>> THEN 0
    ELSE (IF Fallible(Head(cmds)) THEN 1 ELSE 0) + NumFallible(Tail(cmds))

\* The `?` operator on a straight-line list of calls: the f-th fallible call
\* returns Err (f = 0: none does), the method returns there, and the calls
\* after it are not made.
RECURSIVE Question(_, _)
Question(cmds, f) ==
    IF cmds = <<>> THEN <<>>
    ELSE IF Fallible(Head(cmds))
         THEN IF f = 1 THEN <<Failed(Head(cmds))>>
              ELSE <<Head(cmds)>> \o Question(Tail(cmds), f - 1)
         ELSE <<Head(cmds)>> \o Question(Tail(cmds), f)

QuestionResult(cmds, f) ==
    IF f \in 1..NumFallible(cmds) THEN From_program_Error ELSE Ok

----------------------------------------------------------------------------
(* DeferredPipeline: construction and resize *)

FromResource(path, ok) == <<"Program::from_resource", path, ok>>
ScreenCreate(w, h, ok) == <<"ScreenRendertarget::create", w, h, ok>>
ColorCreate(w, h, n, ok) == <<"ColorRendertarget::create", w, h, n, ok>>

\* The fields of the struct, as create fills them in.
DeferredPipeline(width, height, light_pass_program, copy_program, rendertarget, geometry_pass_rendertarget, light_pass_rendertarget) ==
    [width |-> width, height |-> height,
     light_pass_program |-> light_pass_program,
     copy_program |-> copy_program,
     rendertarget |-> rendertarget,
     geometry_pass_rendertarget |-> geometry_pass_rendertarget,
     light_pass_rendertarget |-> light_pass_rendertarget]

\* a variant that allocates the geometry target before the screen target
create_steps_geometry_first(width, height, use_light_pass_rendertarget) ==
    <<FromResource(LightPassPath, TRUE),
      ColorCreate(width, height, 3, TRUE),
      ScreenCreate(width, height, TRUE)>>
    \o (IF use_light_pass_rendertarget
        THEN <<ColorCreate(width, height, 1, TRUE),
               FromResource(CopyPath, TRUE)>>
        ELSE <<>>)

\* The collaborator calls of DeferredPipeline::create, in the order of the
\* code; the last two are made only when the light-pass buffer is asked for.
create_steps(width, height, use_light_pass_rendertarget) ==
    <<FromResource(LightPassPath, TRUE),
      ScreenCreate(width, height, TRUE),
      ColorCreate(width, height, 3, TRUE)>>
    \o (IF use_light_pass_rendertarget
        THEN <<ColorCreate(width, height, 1, TRUE),
               FromResource(CopyPath, TRUE)>>
        ELSE <<>>)

\* the Err a failing step returns through `?` and From
create_error(step) ==
    IF step[1] = "Program::from_resource"
    THEN From_program_Error
    ELSE From_rendertarget_Error

\* a variant that keeps the light-pass target whatever the flag says
create_value_always_target(id0, width, height, use_light_pass_rendertarget) ==
    DeferredPipeline(width, height,
        Program_from_resource(id0, LightPassPath),
        IF use_light_pass_rendertarget
        THEN Some(Program_from_resource(id0 + 4, CopyPath)) ELSE None,
        ScreenRendertarget_create(id0 + 1, width, height),
        ColorRendertarget_create(id0 + 2, width, height, 3),
        Some(ColorRendertarget_create(id0 + 3, width, height, 1)))

\* the struct create returns when no step fails; the k-th step's resource
\* has handle id0 + k - 1
create_value(id0, width, height, use_light_pass_rendertarget) ==
    LET light_pass_program == Program_from_resource(id0, LightPassPath)
        rendertarget == ScreenRendertarget_create(id0 + 1, width, height)
        geometry_pass_rendertarget ==
            ColorRendertarget_create(id0 + 2, width, height, 3)
        light_pass_rendertarget ==
            IF use_light_pass_rendertarget
            THEN Some(ColorRendertarget_create(id0 + 3, width, height, 1))
            ELSE None
        copy_program ==
            IF use_light_pass_rendertarget
            THEN Some(Program_from_resource(id0 + 4, CopyPath))
            ELSE None
    IN  DeferredPipeline(width, height, light_pass_program, copy_program,
                         rendertarget, geometry_pass_rendertarget,
                         light_pass_rendertarget)

FailAt(steps, f) ==
    SubSeq(steps, 1, f - 1) \o
    <<[steps[f] EXCEPT ![Len(steps[f])] = FALSE]>>

\* DeferredPipeline::create.  id0 is the next fresh handle; f is the step
\* whose collaborator call fails (0: none).  Returns the Result, the
\* collaborator calls made and the number of handles handed out.
create(id0, width, height, use_light_pass_rendertarget, f) ==
    LET steps == create_steps(width, height, use_light_pass_rendertarget)
    IN  IF f \in 1..Len(steps) THEN
            [result |-> create_error(steps[f]), value |-> None,
             log |-> FailAt(steps, f), allocated |-> f - 1]
        ELSE
            [result |-> Ok,
             value |-> Some(create_value(id0, width, height,
                                         use_light_pass_rendertarget)),
             log |-> steps, allocated |-> Len(steps)]

\* self after `self.rendertarget = ScreenRendertarget::create(..)?` succeeded
resize_rendertarget(p, id, width, height) ==
    [p EXCEPT !.rendertarget = ScreenRendertarget_create(id, width, height)]

\* a variant that passes height and width in the wrong order
resize_geometry_swapped(p, id, width, height) ==
    [p EXCEPT !.geometry_pass_rendertarget =
                    ColorRendertarget_create(id, height, width, 3),
              !.width = width,
              !.height = height]

\* a variant that updates the size and keeps the old geometry target
resize_geometry_stale(p, id, width, height) ==
    [p EXCEPT !.width = width, !.height = height]

\* a variant that reallocates the light-pass target as well
resize_geometry_and_light_pass(p, id, width, height) ==
    [p EXCEPT !.geometry_pass_rendertarget =
                    ColorRendertarget_create(id, width, height, 3),
              !.light_pass_rendertarget =
                    IF IsSome(p.light_pass_rendertarget)
                    THEN Some(ColorRendertarget_create(id + 1, width, height, 1))
                    ELSE None,
              !.width = width,
              !.height = height]

\* self after the geometry target was created too and the rest of resize ran
resize_geometry(p, id, width, height) ==
    [p EXCEPT !.geometry_pass_rendertarget =
                    ColorRendertarget_create(id, width, height, 3),
              !.width = width,
              !.height = height]

\* DeferredPipeline::resize on self = p.  Returns the Result, self after the
\* call, the collaborator calls made and the number of handles handed out.
resize(p, id0, width, height, f) ==
    IF f = 1 THEN
        [result |-> From_rendertarget_Error, self |-> p,
         log |-> <<ScreenCreate(width, height, FALSE)>>, allocated |-> 0]
    ELSE IF f = 2 THEN
        [result |-> From_rendertarget_Error,
         self |-> resize_rendertarget(p, id0, width, height),
         log |-> <<ScreenCreate(width, height, TRUE),
                   ColorCreate(width, height, 3, FALSE)>>,
         allocated |-> 1]
    ELSE
        [result |-> Ok,
         self |-> resize_geometry(resize_rendertarget(p, id0, width, height),
                                  id0 + 1, width, height),
         log |-> <<ScreenCreate(width, height, TRUE),
                   ColorCreate(width, height, 3, TRUE)>>,
         allocated |-> 2]

----------------
(* DeferredPipeline: accessors *)

OkValue(x) == [ok |-> TRUE, value |-> x]
Err(e) == [ok |-> FALSE, error |-> e]

geometry_pass_color_texture(p) == p.geometry_pass_rendertarget.targets[0 + 1]
geometry_pass_position_texture(p) == p.geometry_pass_rendertarget.targets[1 + 1]
\* a variant that indexes the position attachment
geometry_pass_normal_texture_index1(p) == p.geometry_pass_rendertarget.targets[1 + 1]

geometry_pass_normal_texture(p) == p.geometry_pass_rendertarget.targets[2 + 1]
geometry_pass_depth_texture(p) == p.geometry_pass_rendertarget.depth_target

\* a variant that substitutes the geometry colour texture for a missing one
light_pass_color_texture_fallback(p) ==
    IF IsSome(p.light_pass_rendertarget)
    THEN OkValue(Unwrap(p.light_pass_rendertarget).targets[0 + 1])
    ELSE OkValue(p.geometry_pass_rendertarget.targets[0 + 1])

light_pass_color_texture(p) ==
    IF IsSome(p.light_pass_rendertarget)
    THEN OkValue(Unwrap(p.light_pass_rendertarget).targets[0 + 1])
    ELSE Err(LightPassRendertargetNotAvailable)

copy_program(p) ==
    IF IsSome(p.copy_program)
    THEN OkValue(Unwrap(p.copy_program))
    ELSE Err(LightPassRendertargetNotAvailable)

----------------------------------------------------------------------------
(* DeferredPipeline: the pass protocol.  Each method returns its Result and *)
(* the collaborator calls it made; f is the fallible call that fails.       *)

\* a variant that culls back faces, as the other passes do
geometry_pass_begin_cull_back(p, camera) ==
    [result |-> Ok,
     log |-> <<Bind(p.geometry_pass_rendertarget.id),
               Clear(p.geometry_pass_rendertarget.id),
               DepthWrite(TRUE),
               DepthTest("LEQUAL"),
               Cull("BACK"),
               Blend("NONE")>>]

geometry_pass_begin(p, camera) ==
    [result |-> Ok,
     log |-> <<Bind(p.geometry_pass_rendertarget.id),
               Clear(p.geometry_pass_rendertarget.id),
               DepthWrite(TRUE),
               DepthTest("LEQUAL"),
               Cull("NONE"),
               Blend("NONE")>>]

\* a variant that reports the other availability error
shadow_cast_begin_wrong_error(p, light) ==
    IF IsSome(light.shadow_render_target) THEN
        LET rendertarget == Unwrap(light.shadow_render_target)
        IN  [result |-> Ok,
             log |-> <<Bind(rendertarget.id),
                       Clear(rendertarget.id),
                       DepthWrite(TRUE),
                       DepthTest("LEQUAL"),
                       Cull("BACK"),
                       Blend("NONE")>>]
    ELSE
        [result |-> LightPassRendertargetNotAvailable, log |-> <<>>]

shadow_cast_begin(p, light) ==
    IF IsSome(light.shadow_render_target) THEN
        LET rendertarget == Unwrap(light.shadow_render_target)
        IN  [result |-> Ok,
             log |-> <<Bind(rendertarget.id),
                       Clear(rendertarget.id),
                       DepthWrite(TRUE),
                       DepthTest("LEQUAL"),
                       Cull("BACK"),
                       Blend("NONE")>>]
    ELSE
        [result |-> ShadowRendertargetNotAvailable, log |-> <<>>]

\* a variant that falls back to the geometry target instead of the screen
light_pass_target_geometry(p) ==
    IF IsSome(p.light_pass_rendertarget)
    THEN Unwrap(p.light_pass_rendertarget).id
    ELSE p.geometry_pass_rendertarget.id

\* the target the light pass renders into
light_pass_target(p) ==
    IF IsSome(p.light_pass_rendertarget)
    THEN Unwrap(p.light_pass_rendertarget).id
    ELSE p.rendertarget.id

\* a variant that binds the four textures before it sets any uniform
light_pass_begin_calls_textures_first(p, camera) ==
    LET target == light_pass_target(p)
    IN  <<Bind(target),
          Clear(target),
          DepthWrite(FALSE),
          DepthTest("NONE"),
          Cull("BACK"),
          Blend("ONE__ONE"),
          TextureBind(geometry_pass_color_texture(p), 0),
          TextureBind(geometry_pass_position_texture(p), 1),
          TextureBind(geometry_pass_normal_texture(p), 2),
          TextureBind(geometry_pass_depth_texture(p), 3),
          AddUniform(p.light_pass_program, "colorMap", 0),
          AddUniform(p.light_pass_program, "positionMap", 1),
          AddUniform(p.light_pass_program, "normalMap", 2),
          AddUniform(p.light_pass_program, "depthMap", 3),
          AddUniform(p.light_pass_program, "eyePosition", camera.position)>>

\* a variant that turns blending off, as the other passes do
light_pass_begin_calls_blend_none(p, camera) ==
    LET target == light_pass_target(p)
    IN  <<Bind(target),
          Clear(target),
          DepthWrite(FALSE),
          DepthTest("NONE"),
          Cull("BACK"),
          Blend("NONE"),
          TextureBind(geometry_pass_color_texture(p), 0),
          AddUniform(p.light_pass_program, "colorMap", 0),
          TextureBind(geometry_pass_position_texture(p), 1),
          AddUniform(p.light_pass_program, "positionMap", 1),
          TextureBind(geometry_pass_normal_texture(p), 2),
          AddUniform(p.light_pass_program, "normalMap", 2),
          TextureBind(geometry_pass_depth_texture(p), 3),
          AddUniform(p.light_pass_program, "depthMap", 3),
          AddUniform(p.light_pass_program, "eyePosition", camera.position)>>

\* a variant that draws the lit quad where the target is to be cleared
light_pass_begin_calls_draws(p, camera) ==
    LET target == light_pass_target(p)
    IN  <<Bind(target),
          Render(p.light_pass_program),
          DepthWrite(FALSE),
          DepthTest("NONE"),
          Cull("BACK"),
          Blend("ONE__ONE"),
          TextureBind(geometry_pass_color_texture(p), 0),
          AddUniform(p.light_pass_program, "colorMap", 0),
          TextureBind(geometry_pass_position_texture(p), 1),
          AddUniform(p.light_pass_program, "positionMap", 1),
          TextureBind(geometry_pass_normal_texture(p), 2),
          AddUniform(p.light_pass_program, "normalMap", 2),
          TextureBind(geometry_pass_depth_texture(p), 3),
          AddUniform(p.light_pass_program, "depthMap", 3),
          AddUniform(p.light_pass_program, "eyePosition", camera.position)>>

light_pass_begin_calls(p, camera) ==
    LET target == light_pass_target(p)
    IN  <<Bind(target),
          Clear(target),
          DepthWrite(FALSE),
          DepthTest("NONE"),
          Cull("BACK"),
          Blend("ONE__ONE"),
          TextureBind(geometry_pass_color_texture(p), 0),
          AddUniform(p.light_pass_program, "colorMap", 0),
          TextureBind(geometry_pass_position_texture(p), 1),
          AddUniform(p.light_pass_program, "positionMap", 1),
          TextureBind(geometry_pass_normal_texture(p), 2),
          AddUniform(p.light_pass_program, "normalMap", 2),
          TextureBind(geometry_pass_depth_texture(p), 3),
          AddUniform(p.light_pass_program, "depthMap", 3),
          AddUniform(p.light_pass_program, "eyePosition", camera.position)>>

\* a variant that checks the pass sequence: it refuses to start the light
\* pass unless the geometry target is the one bound
light_pass_begin_in_sequence(p, camera, f) ==
    IF gl.bound # p.geometry_pass_rendertarget.id THEN
        [result |-> LightPassRendertargetNotAvailable, log |-> <<>>]
    ELSE
        [result |-> QuestionResult(light_pass_begin_calls(p, camera), f),
         log |-> Question(light_pass_begin_calls(p, camera), f)]

light_pass_begin(p, camera, f) ==
    [result |-> QuestionResult(light_pass_begin_calls(p, camera), f),
     log |-> Question(light_pass_begin_calls(p, camera), f)]

\* a variant that uploads the base color before the direction
shine_directional_light_calls_color_first(p, light) ==
    <<AddUniform(p.light_pass_program, "lightType", 1),
      AddUniform(p.light_pass_program, "directionalLight.base.color",
                 light.color),
      AddUniform(p.light_pass_program, "directionalLight.direction",
                 light.direction),
      AddUniform(p.light_pass_program,
                 "directionalLight.base.ambientIntensity",
                 light.ambient_intensity),
      AddUniform(p.light_pass_program,
                 "directionalLight.base.diffuseIntensity",
                 light.diffuse_intensity),
      Render(p.light_pass_program)>>

shine_directional_light_calls(p, light) ==
    <<AddUniform(p.light_pass_program, "lightType", 1),
      AddUniform(p.light_pass_program, "directionalLight.direction",
                 light.direction),
      AddUniform(p.light_pass_program, "directionalLight.base.color",
                 light.color),
      AddUniform(p.light_pass_program,
                 "directionalLight.base.ambientIntensity",
                 light.ambient_intensity),
      AddUniform(p.light_pass_program,
                 "directionalLight.base.diffuseIntensity",
                 light.diffuse_intensity),
      Render(p.light_pass_program)>>

shine_directional_light(p, light, f) ==
    [result |-> QuestionResult(shine_directional_light_calls(p, light), f),
     log |-> Question(shine_directional_light_calls(p, light), f)]

copy_to_screen_head(p) ==
    <<Bind(p.rendertarget.id),
      Clear(p.rendertarget.id),
      DepthWrite(TRUE),
      DepthTest("LEQUAL"),
      Cull("BACK"),
      Blend("NONE")>>

\* a variant that points the depth sampler at slot 0
copy_to_screen_calls_depth0(p, program, texture) ==
    copy_to_screen_head(p) \o
    <<TextureBind(texture, 0),
      AddUniform(program, "colorMap", 0),
      TextureBind(geometry_pass_depth_texture(p), 1),
      AddUniform(program, "depthMap", 0),
      Render(program)>>

copy_to_screen_calls(p, program, texture) ==
    copy_to_screen_head(p) \o
    <<TextureBind(texture, 0),
      AddUniform(program, "colorMap", 0),
      TextureBind(geometry_pass_depth_texture(p), 1),
      AddUniform(program, "depthMap", 1),
      Render(program)>>

\* a variant that asks for the copy program after it has bound and cleared
\* the screen target
copy_to_screen_late_check(p, f) ==
    IF ~copy_program(p).ok THEN
        [result |-> copy_program(p).error, log |-> copy_to_screen_head(p)]
    ELSE IF ~light_pass_color_texture(p).ok THEN
        [result |-> light_pass_color_texture(p).error,
         log |-> copy_to_screen_head(p)]
    ELSE
        LET calls == copy_to_screen_calls(p, copy_program(p).value,
                                          light_pass_color_texture(p).value)
        IN  [result |-> QuestionResult(calls, f), log |-> Question(calls, f)]

copy_to_screen(p, f) ==
    IF ~copy_program(p).ok THEN
        [result |-> copy_program(p).error, log |-> <<>>]
    ELSE IF ~light_pass_color_texture(p).ok THEN
        [result |-> light_pass_color_texture(p).error,
         log |-> copy_to_screen_head(p)]
    ELSE
        LET calls == copy_to_screen_calls(p, copy_program(p).value,
                                          light_pass_color_texture(p).value)
        IN  [result |-> QuestionResult(calls, f), log |-> Question(calls, f)]

----------------------------------------------------------------------------
(* The state machine: a caller that holds the GPU context and at most one   *)
(* DeferredPipeline, and calls its methods in any order.                    *)

NoArgs == [width |-> 0, height |-> 0, flag |-> FALSE, light |-> "", camera |-> 0]

\* `again`: the call repeats the call before it (same method, arguments,
\* result and collaborator outcomes)
Call(op, args, result, value, log) ==
    [op |-> op, args |-> args, result |-> result, value |-> value, log |-> log,
     again |-> /\ lastCall.op = op
               /\ lastCall.args = args
               /\ lastCall.result = result
               /\ lastCall.log = log]

\* the render targets a pipeline owns
Owned(p) ==
    {p.rendertarget.id, p.geometry_pass_rendertarget.id}
    \union (IF IsSome(p.light_pass_rendertarget)
            THEN {Unwrap(p.light_pass_rendertarget).id} ELSE {})

\* new render targets start with empty pixels
Allocated(g, targets) ==
    [g EXCEPT !.fb = [t \in targets \ DOMAIN g.fb |-> 0] @@ @]

NoUniforms == [n \in UniformNames |-> Unset]

\* a compiled program starts with none of its uniforms set
Compiled(g, prog) == [g EXCEPT !.uniforms = (prog.id :> NoUniforms) @@ @]

Init ==
    /\ pipeline = None
    /\ built = None
    /\ gl = [bound |-> DefaultTarget,
             depth_write |-> TRUE,
             depth_test |-> "NONE",
             cull |-> "NONE",
             blend |-> "NONE",
             slots |-> [s \in Slots |-> NoTexture],
             uniforms |-> [i \in {} |-> NoUniforms],
             fb |-> [t \in {DefaultTarget, ShadowTargetId} |-> 0]]
    /\ nextId = ShadowTargetId + 1
    /\ ncalls = 0
    /\ lastCall = [op |-> "none", args |-> NoArgs, result |-> Ok,
                   value |-> None, log |-> <<>>, again |-> FALSE]

P == Unwrap(pipeline)

Create ==
    /\ lastCall.op = "none"
    /\ \E v \in Viewports, flag \in BOOLEAN, f \in 0..5 :
        /\ f <= (IF flag THEN 5 ELSE 3)
        /\ LET r == create(nextId, v.width, v.height, flag, f)
               args == [NoArgs EXCEPT !.width = v.width, !.height = v.height,
                                      !.flag = flag]
           IN  /\ pipeline' = r.value
               /\ built' = IF r.result = Ok THEN Some(args) ELSE built
               /\ nextId' = nextId + r.allocated
               /\ gl' = IF r.result # Ok THEN gl
                        ELSE IF IsSome(Unwrap(r.value).copy_program)
                        THEN Allocated(Compiled(Compiled(gl,
                                 Unwrap(r.value).light_pass_program),
                                 Unwrap(Unwrap(r.value).copy_program)),
                                 Owned(Unwrap(r.value)))
                        ELSE Allocated(Compiled(gl,
                                 Unwrap(r.value).light_pass_program),
                                 Owned(Unwrap(r.value)))
               /\ lastCall' = Call("create", args, r.result, None, r.log)
               /\ UNCHANGED ncalls

Resize ==
    /\ pipeline # None
    /\ ncalls < MaxCalls
    /\ \E v \in Viewports, f \in 0..2 :
        LET r == resize(P, nextId, v.width, v.height, f)
        IN  /\ pipeline' = Some(r.self)
            /\ nextId' = nextId + r.allocated
            /\ ncalls' = ncalls + 1
            /\ lastCall' = Call("resize",
                    [NoArgs EXCEPT !.width = v.width, !.height = v.height],
                    r.result, None, r.log)
            /\ gl' = Allocated(gl, Owned(r.self))
            /\ UNCHANGED built

\* a pass method: its calls act on the GPU context, self is borrowed immutably
Pass(op, args, r) ==
    /\ pipeline # None
    /\ ncalls < MaxCalls
    /\ gl' = Run(gl, r.log)
    /\ ncalls' = ncalls + 1
    /\ lastCall' = Call(op, args, r.result, None, r.log)
    /\ UNCHANGED <<pipeline, built, nextId>>

GeometryPassBegin ==
    /\ pipeline # None
    /\ \E camera \in Cameras :
        Pass("geometry_pass_begin", [NoArgs EXCEPT !.camera = camera.position],
             geometry_pass_begin(P, camera))

ShadowCastBegin ==
    /\ pipeline # None
    /\ \E light \in DirectionalLights :
        Pass("shadow_cast_begin", [NoArgs EXCEPT !.light = light.name],
             shadow_cast_begin(P, light))

LightPassBegin ==
    /\ pipeline # None
    /\ \E camera \in Cameras, f \in 0..5 :
        Pass("light_pass_begin", [NoArgs EXCEPT !.camera = camera.position],
             light_pass_begin(P, camera, f))

ShineDirectionalLight ==
    /\ pipeline # None
    /\ \E light \in DirectionalLights, f \in 0..5 :
        Pass("shine_directional_light", [NoArgs EXCEPT !.light = light.name],
             shine_directional_light(P, light, f))

CopyToScreen ==
    /\ pipeline # None
    /\ \E f \in 0..2 :
        Pass("copy_to_screen", NoArgs, copy_to_screen(P, f))

Next ==
    \/ Create
    \/ Resize
    \/ GeometryPassBegin
    \/ ShadowCastBegin
    \/ LightPassBegin
    \/ ShineDirectionalLight
    \/ CopyToScreen

Spec == Init /\ [][Next]_vars

----------------------------------------------------------------------------
(* ForwardPipeline, and a caller that holds one instead of a                *)
(* DeferredPipeline.                                                        *)

ForwardPipeline(width, height, rendertarget) ==
    [width |-> width, height |-> height, rendertarget |-> rendertarget]

\* ForwardPipeline::create; f = 1: the screen target allocation fails
forward_create(id0, width, height, f) ==
    IF f = 1 THEN
        [result |-> From_rendertarget_Error, value |-> None,
         log |-> <<ScreenCreate(width, height, FALSE)>>, allocated |-> 0]
    ELSE
        [result |-> Ok,
         value |-> Some(ForwardPipeline(width, height,
                        ScreenRendertarget_create(id0, width, height))),
         log |-> <<ScreenCreate(width, height, TRUE)>>, allocated |-> 1]

\* a variant that stores the new size before the allocation is known to succeed
forward_resize_size_first(p, id0, width, height, f) ==
    IF f = 1 THEN
        [result |-> From_rendertarget_Error,
         self |-> [p EXCEPT !.width = width, !.height = height],
         log |-> <<ScreenCreate(width, height, FALSE)>>, allocated |-> 0]
    ELSE
        [result |-> Ok,
         self |-> [p EXCEPT
                    !.rendertarget = ScreenRendertarget_create(id0, width, height),
                    !.width = width,
                    !.height = height],
         log |-> <<ScreenCreate(width, height, TRUE)>>, allocated |-> 1]

\* ForwardPipeline::resize on self = p
forward_resize(p, id0, width, height, f) ==
    IF f = 1 THEN
        [result |-> From_rendertarget_Error, self |-> p,
         log |-> <<ScreenCreate(width, height, FALSE)>>, allocated |-> 0]
    ELSE
        [result |-> Ok,
         self |-> [p EXCEPT
                    !.rendertarget = ScreenRendertarget_create(id0, width, height),
                    !.width = width,
                    !.height = height],
         log |-> <<ScreenCreate(width, height, TRUE)>>, allocated |-> 1]

\* ForwardPipeline::render_pass_begin
render_pass_begin(p) ==
    [result |-> Ok,
     log |-> <<Bind(p.rendertarget.id), Clear(p.rendertarget.id)>>]

ForwardCreate ==
    /\ lastCall.op = "none"
    /\ \E v \in Viewports, f \in 0..1 :
        LET r == forward_create(nextId, v.width, v.height, f)
            args == [NoArgs EXCEPT !.width = v.width, !.height = v.height]
        IN  /\ pipeline' = r.value
            /\ built' = IF r.result = Ok THEN Some(args) ELSE built
            /\ nextId' = nextId + r.allocated
            /\ gl' = IF r.result = Ok
                     THEN Allocated(gl, {Unwrap(r.value).rendertarget.id})
                     ELSE gl
            /\ lastCall' = Call("create", args, r.result, None, r.log)
            /\ UNCHANGED ncalls

ForwardResize ==
    /\ pipeline # None
    /\ ncalls < MaxCalls
    /\ \E v \in Viewports, f \in 0..1 :
        LET r == forward_resize(P, nextId, v.width, v.height, f)
        IN  /\ pipeline' = Some(r.self)
            /\ nextId' = nextId + r.allocated
            /\ ncalls' = ncalls + 1
            /\ lastCall' = Call("resize",
                    [NoArgs EXCEPT !.width = v.width, !.height = v.height],
                    r.result, None, r.log)
            /\ gl' = Allocated(gl, {r.self.rendertarget.id})
            /\ UNCHANGED built

RenderPassBegin ==
    /\ pipeline # None
    /\ Pass("render_pass_begin", NoArgs, render_pass_begin(P))

NextForward ==
    \/ ForwardCreate
    \/ ForwardResize
    \/ RenderPassBegin

SpecForward == Init /\ [][NextForward]_vars

----------------------------------------------------------------------------
(* Properties *)

Live == pipeline # None
Buffered == Unwrap(built).flag
LastLight == CHOOSE l \in DirectionalLights : l.name = lastCall.args.light
Returned(op, result) == lastCall.op = op /\ lastCall.result = result
LightUniforms == gl.uniforms[P.light_pass_program.id]

\* the number of draws a call issued
RECURSIVE Draws(_)
Draws(log) ==
    IF log = <<>> THEN 0
    ELSE (IF Head(log)[1] = "render" THEN 1 ELSE 0) + Draws(Tail(log))

\* C1: on a pipeline created with use_light_pass_rendertarget = false,
\* light_pass_color_texture() and copy_program() return the
\* LightPassRendertargetNotAvailable error in every state the pipeline can
\* reach, whatever was called before; they never return a texture or program.
C1_AccessorsUnavailable ==
    (Live /\ ~Buffered) =>
        /\ light_pass_color_texture(P) = Err(LightPassRendertargetNotAvailable)
        /\ copy_program(P) = Err(LightPassRendertargetNotAvailable)

\* an unbuffered pipeline that has been resized and has begun a light pass
C1_Witness ==
    /\ Live /\ ~Buffered
    /\ P.width # Unwrap(built).width
    /\ Returned("light_pass_begin", Ok)
    /\ ~light_pass_color_texture(P).ok
    /\ ~copy_program(P).ok

\* C2: shadow_cast_begin with a light that has no shadow render target
\* returns ShadowRendertargetNotAvailable, on a buffered and on an unbuffered
\* pipeline and in any state; with a light that has one it returns Ok, binds
\* and clears that light's target and leaves depth write on, depth test
\* LEQUAL, cull BACK, blend NONE.
C2_ShadowCastBegin ==
    lastCall.op = "shadow_cast_begin" =>
        IF IsSome(LastLight.shadow_render_target)
        THEN /\ lastCall.result = Ok
             /\ gl.bound = Unwrap(LastLight.shadow_render_target).id
             /\ Len(lastCall.log) >= 2
             /\ lastCall.log[1] = Bind(Unwrap(LastLight.shadow_render_target).id)
             /\ lastCall.log[2] = Clear(Unwrap(LastLight.shadow_render_target).id)
             /\ gl.depth_write = TRUE
             /\ gl.depth_test = "LEQUAL"
             /\ gl.cull = "BACK"
             /\ gl.blend = "NONE"
        ELSE lastCall.result = ShadowRendertargetNotAvailable

\* the error is returned on an unbuffered pipeline in the middle of a light pass
C2_Witness ==
    /\ Live /\ ~Buffered
    /\ Returned("shadow_cast_begin", ShadowRendertargetNotAvailable)
    /\ lastCall.args.light = "L2"
    /\ gl.blend = "ONE__ONE"
    /\ gl.bound = P.rendertarget.id

\* C3: after a successful light_pass_begin, sampler slots 0, 1, 2, 3 hold the
\* geometry target's attachments 0 (color), 1 (position), 2 (normal) and its
\* depth texture, the light program's colorMap, positionMap, normalMap and
\* depthMap are 0, 1, 2, 3, and its eyePosition is the camera's position.
C3_LightPassBeginWiring ==
    Returned("light_pass_begin", Ok) =>
        /\ gl.slots[0] = P.geometry_pass_rendertarget.targets[1]
        /\ gl.slots[1] = P.geometry_pass_rendertarget.targets[2]
        /\ gl.slots[2] = P.geometry_pass_rendertarget.targets[3]
        /\ gl.slots[3] = P.geometry_pass_rendertarget.depth_target
        /\ gl.slots[0].attachment = 0
        /\ gl.slots[1].attachment = 1
        /\ gl.slots[2].attachment = 2
        /\ gl.slots[3].attachment = DepthAttachment
        /\ LightUniforms["colorMap"] = 0
        /\ LightUniforms["positionMap"] = 1
        /\ LightUniforms["normalMap"] = 2
        /\ LightUniforms["depthMap"] = 3
        /\ LightUniforms["eyePosition"] = lastCall.args.camera

\* a light pass begun after a resize to another size, with the second camera
C3_Witness ==
    /\ Returned("light_pass_begin", Ok)
    /\ gl.slots[0].width # Unwrap(built).width
    /\ lastCall.args.camera = 2

\* C4: on a pipeline built without the light-pass buffer, light_pass_begin
\* binds and clears the screen render target (there is no light-pass target),
\* and copy_to_screen fails with LightPassRendertargetNotAvailable.
C4_UnbufferedLightPass ==
    (Live /\ ~Buffered) =>
        /\ P.light_pass_rendertarget = None
        /\ lastCall.op = "light_pass_begin" =>
              /\ gl.bound = P.rendertarget.id
              /\ lastCall.log[1] = Bind(P.rendertarget.id)
              /\ lastCall.log[2] = Clear(P.rendertarget.id)
        /\ lastCall.op = "copy_to_screen" =>
              lastCall.result = LightPassRendertargetNotAvailable

\* copy_to_screen has failed right after a light pass on the screen target
C4_Witness ==
    /\ Live /\ ~Buffered
    /\ Returned("copy_to_screen", LightPassRendertargetNotAvailable)
    /\ gl.bound = P.rendertarget.id
    /\ gl.blend = "ONE__ONE"
    /\ gl.slots[3] = P.geometry_pass_rendertarget.depth_target

\* C5: on a pipeline built with the light-pass buffer, light_pass_begin binds
\* and clears the light-pass render target, and a successful copy_to_screen
\* ends with the screen target bound and cleared, the light-pass color
\* texture in slot 0, the geometry depth texture in slot 1, the copy
\* program's colorMap = 0 and depthMap = 1, depth write on, depth test
\* LEQUAL, cull BACK, blend NONE, and exactly one full-screen quad draw,
\* issued last and with the copy program.
C5_BufferedLightPassAndCopy ==
    (Live /\ Buffered) =>
        /\ IsSome(P.light_pass_rendertarget) /\ IsSome(P.copy_program)
        /\ lastCall.op = "light_pass_begin" =>
              /\ gl.bound = Unwrap(P.light_pass_rendertarget).id
              /\ lastCall.log[1] = Bind(Unwrap(P.light_pass_rendertarget).id)
              /\ lastCall.log[2] = Clear(Unwrap(P.light_pass_rendertarget).id)
        /\ Returned("copy_to_screen", Ok) =>
              /\ gl.bound = P.rendertarget.id
              /\ lastCall.log[1] = Bind(P.rendertarget.id)
              /\ lastCall.log[2] = Clear(P.rendertarget.id)
              /\ gl.slots[0] = Unwrap(P.light_pass_rendertarget).targets[1]
              /\ gl.slots[1] = P.geometry_pass_rendertarget.depth_target
              /\ gl.uniforms[Unwrap(P.copy_program).id]["colorMap"] = 0
              /\ gl.uniforms[Unwrap(P.copy_program).id]["depthMap"] = 1
              /\ gl.depth_write = TRUE
              /\ gl.depth_test = "LEQUAL"
              /\ gl.cull = "BACK"
              /\ gl.blend = "NONE"
              /\ Draws(lastCall.log) = 1
              /\ lastCall.log[Len(lastCall.log)] = Render(Unwrap(P.copy_program))

\* copy_to_screen has succeeded after a light pass had wired slots 2 and 3
C5_Witness ==
    /\ Live /\ Buffered
    /\ Returned("copy_to_screen", Ok)
    /\ gl.slots[2] = P.geometry_pass_rendertarget.targets[3]
    /\ gl.slots[0] = Unwrap(P.light_pass_rendertarget).targets[1]
    /\ LightUniforms["eyePosition"] # Unset

\* C6: in every reachable state the geometry-pass and the screen render
\* target both have the pipeline's current (width, height), also after a
\* resize that returned an error.
C6_TargetsMatchViewport ==
    Live =>
        /\ P.rendertarget.width = P.width
        /\ P.rendertarget.height = P.height
        /\ P.geometry_pass_rendertarget.width = P.width
        /\ P.geometry_pass_rendertarget.height = P.height

\* C7: in every reachable state the light-pass render target and the copy
\* program are both present or both absent, and present exactly when create
\* was given use_light_pass_rendertarget = true; no later call changes that.
C7_LightPassPresence ==
    Live =>
        /\ IsSome(P.light_pass_rendertarget) = Buffered
        /\ IsSome(P.copy_program) = Buffered

\* a buffered pipeline in a light pass, after a resize that failed half-way
C7_Witness ==
    /\ Live /\ Buffered
    /\ Returned("resize", From_rendertarget_Error)
    /\ P.rendertarget.width # P.width
    /\ gl.blend = "ONE__ONE"
    /\ IsSome(P.light_pass_rendertarget) /\ IsSome(P.copy_program)

\* the calls create is expected to make, without their outcomes
C8_Expected ==
    << <<"Program::from_resource", "../Dust/examples/assets/shaders/light_pass">>,
       <<"ScreenRendertarget::create", lastCall.args.width, lastCall.args.height>>,
       <<"ColorRendertarget::create", lastCall.args.width, lastCall.args.height, 3>> >>
    \o (IF lastCall.args.flag
        THEN << <<"ColorRendertarget::create", lastCall.args.width,
                  lastCall.args.height, 1>>,
                <<"Program::from_resource", "../Dust/examples/assets/shaders/copy">> >>
        ELSE <<>>)

C8_Succeeded(c) == c[Len(c)]

\* C8: create makes its calls in the order light-program compile, screen
\* target, geometry target with 3 attachments and, only when buffering is
\* requested, light-pass target with 1 attachment and copy-program compile;
\* the first failing call is the last call made, no pipeline is returned, and
\* the error is Program for a compile and Rendertarget for an allocation;
\* a pipeline is returned only when every call was made and succeeded.
C8_CreateOrder ==
    lastCall.op = "create" =>
        LET log == lastCall.log
            n == Len(log)
        IN  /\ n \in 1..Len(C8_Expected)
            /\ \A i \in 1..n : SubSeq(log[i], 1, Len(log[i]) - 1) = C8_Expected[i]
            /\ \A i \in 1..(n - 1) : C8_Succeeded(log[i])
            /\ IF C8_Succeeded(log[n])
               THEN /\ n = Len(C8_Expected)
                    /\ lastCall.result = Ok
                    /\ Live
                    /\ Len(P.geometry_pass_rendertarget.targets) = 3
                    /\ lastCall.args.flag =>
                          Len(Unwrap(P.light_pass_rendertarget).targets) = 1
               ELSE /\ ~Live
                    /\ lastCall.result =
                          IF log[n][1] = "Program::from_resource"
                          THEN "Program" ELSE "Rendertarget"

\* the light-pass target allocation failed: four calls made, no pipeline
C8_Witness ==
    /\ Returned("create", "Rendertarget")
    /\ Len(lastCall.log) = 4
    /\ lastCall.args.flag
    /\ ~Live

GeometryTextures(p) ==
    {geometry_pass_color_texture(p), geometry_pass_position_texture(p),
     geometry_pass_normal_texture(p), geometry_pass_depth_texture(p)}

\* C9: a resize(w, h) that returns Ok leaves width and height at (w, h), the
\* screen target and the four textures of the geometry accessors newly
\* allocated (handles never handed out before the call) at (w, h), and the
\* previous screen and geometry targets no longer owned by the pipeline.
C9_ResizeReallocates ==
    [][(lastCall'.op = "resize" /\ lastCall'.result = Ok) =>
        LET q == Unwrap(pipeline')
            w == lastCall'.args.width
            h == lastCall'.args.height
        IN  /\ q.width = w /\ q.height = h
            /\ q.rendertarget.width = w /\ q.rendertarget.height = h
            /\ q.rendertarget.id >= nextId
            /\ q.geometry_pass_rendertarget.id >= nextId
            /\ q.geometry_pass_rendertarget.id # q.rendertarget.id
            /\ Cardinality(GeometryTextures(q)) = 4
            /\ \A t \in GeometryTextures(q) :
                  /\ t.target = q.geometry_pass_rendertarget.id
                  /\ t.target >= nextId
                  /\ t.width = w /\ t.height = h
            /\ P.rendertarget.id \notin Owned(q)
            /\ P.geometry_pass_rendertarget.id \notin Owned(q)
      ]_vars

\* a resize to another size has succeeded
C9_Witness ==
    /\ Live
    /\ Returned("resize", Ok)
    /\ P.width # Unwrap(built).width
    /\ geometry_pass_color_texture(P).width = 1024
    /\ geometry_pass_color_texture(P).height = 768

\* C10: resize, successful or not, leaves the light-pass render target, the
\* copy program and the light program as they were; on a buffered pipeline
\* light_pass_color_texture() returns after it the same texture as before,
\* of the size given to create.
C10_ResizeKeepsLightPass ==
    [][lastCall'.op = "resize" =>
        LET q == Unwrap(pipeline')
        IN  /\ q.light_pass_rendertarget = P.light_pass_rendertarget
            /\ q.copy_program = P.copy_program
            /\ q.light_pass_program = P.light_pass_program
            /\ Buffered =>
                  /\ light_pass_color_texture(q).ok
                  /\ light_pass_color_texture(q) = light_pass_color_texture(P)
                  /\ light_pass_color_texture(q).value.width = Unwrap(built).width
                  /\ light_pass_color_texture(q).value.height = Unwrap(built).height
      ]_vars

\* after a resize the light-pass texture and the geometry textures differ in size
C10_Witness ==
    /\ Live /\ Buffered
    /\ Returned("resize", Ok)
    /\ light_pass_color_texture(P).value.width # geometry_pass_color_texture(P).width
    /\ light_pass_color_texture(P).value.height # geometry_pass_color_texture(P).height

\* what a pipeline is made of, leaving the handles aside: its size, the size
\* and attachment count of each target, the size of each texture, and which
\* optional parts are present
TextureShape(t) == <<t.attachment, t.width, t.height>>

TargetShape(t) ==
    <<t.width, t.height, Len(t.targets),
      {TextureShape(t.targets[i]) : i \in 1..Len(t.targets)},
      TextureShape(t.depth_target)>>

Shape(p) ==
    [width |-> p.width, height |-> p.height,
     rendertarget |-> <<p.rendertarget.width, p.rendertarget.height>>,
     geometry_pass_rendertarget |-> TargetShape(p.geometry_pass_rendertarget),
     light_pass_rendertarget |->
        IF IsSome(p.light_pass_rendertarget)
        THEN Some(TargetShape(Unwrap(p.light_pass_rendertarget))) ELSE None,
     light_pass_program |-> p.light_pass_program.path,
     copy_program |->
        IF IsSome(p.copy_program)
        THEN Some(Unwrap(p.copy_program).path) ELSE None]

\* which of the pipeline's targets a handle is
Role(p, id) ==
    IF id = p.rendertarget.id THEN "screen"
    ELSE IF id = p.geometry_pass_rendertarget.id THEN "geometry"
    ELSE IF id \in Owned(p) THEN "light_pass"
    ELSE IF id = ShadowTargetId THEN "shadow"
    ELSE "other"

Modes(g) == <<g.depth_write, g.depth_test, g.cull, g.blend>>

\* the outcome of a pass call r on pipeline p in context g: its result and
\* the GPU state it leaves, with handles replaced by their role
Outcome(p, g, r) ==
    [result |-> r.result,
     modes |-> Modes(Run(g, r.log)),
     bound |-> Role(p, Run(g, r.log).bound),
     slots |-> [s \in Slots |->
                  <<Role(p, Run(g, r.log).slots[s].target),
                    TextureShape(Run(g, r.log).slots[s])>>]]

\* every pass call has the same outcome on (q, g2) as on (p, g1)
SameOutcomes(q, g2, p, g1) ==
    /\ \A c \in Cameras :
          Outcome(q, g2, geometry_pass_begin(q, c))
              = Outcome(p, g1, geometry_pass_begin(p, c))
    /\ \A l \in DirectionalLights :
          Outcome(q, g2, shadow_cast_begin(q, l))
              = Outcome(p, g1, shadow_cast_begin(p, l))
    /\ \A c \in Cameras, f \in 0..5 :
          Outcome(q, g2, light_pass_begin(q, c, f))
              = Outcome(p, g1, light_pass_begin(p, c, f))
    /\ \A l \in DirectionalLights, f \in 0..5 :
          Outcome(q, g2, shine_directional_light(q, l, f))
              = Outcome(p, g1, shine_directional_light(p, l, f))
    /\ \A f \in 0..2 :
          Outcome(q, g2, copy_to_screen(q, f))
              = Outcome(p, g1, copy_to_screen(p, f))

\* C11: create(width, height, flag) followed immediately by a successful
\* resize(width, height) leaves a pipeline with the same width, height,
\* target and texture sizes, attachment counts and light-pass / copy-program
\* presence as right after create, and every pass call has on it the same
\* outcome (result, GPU state, role of the bound target and of the textures
\* in the sampler slots) as on the freshly created pipeline.
C11_CreateThenResizeSame ==
    [][(/\ Returned("create", Ok)
        /\ lastCall'.op = "resize" /\ lastCall'.result = Ok
        /\ lastCall'.args.width = P.width
        /\ lastCall'.args.height = P.height) =>
            /\ Shape(Unwrap(pipeline')) = Shape(P)
            /\ SameOutcomes(Unwrap(pipeline'), gl', P, gl)
      ]_vars

\* the first call after create was a successful resize to the size it was built with
C11_Witness ==
    /\ Live
    /\ Returned("resize", Ok)
    /\ ncalls = 1
    /\ lastCall.args.width = Unwrap(built).width
    /\ lastCall.args.height = Unwrap(built).height
    /\ P.rendertarget.id = nextId - 2

\* C12: geometry_pass_begin always returns Ok and leaves the geometry-pass
\* render target bound and cleared, depth write on, depth test LEQUAL, cull
\* NONE and blend NONE, whatever was bound and set before the call.
C12_GeometryPassBegin ==
    lastCall.op = "geometry_pass_begin" =>
        /\ lastCall.result = Ok
        /\ gl.bound = P.geometry_pass_rendertarget.id
        /\ lastCall.log[1] = Bind(P.geometry_pass_rendertarget.id)
        /\ lastCall.log[2] = Clear(P.geometry_pass_rendertarget.id)
        /\ gl.fb[P.geometry_pass_rendertarget.id] = 0
        /\ gl.depth_write = TRUE
        /\ gl.depth_test = "LEQUAL"
        /\ gl.cull = "NONE"
        /\ gl.blend = "NONE"

\* a geometry pass begun after a light pass had set the opposite state and a
\* light had been drawn into another target
C12_Witness ==
    /\ Returned("geometry_pass_begin", Ok)
    /\ LightUniforms["eyePosition"] # Unset
    /\ gl.slots[3] = P.geometry_pass_rendertarget.depth_target
    /\ gl.fb[light_pass_target(P)] > 0

LightNamed(n) == CHOOSE l \in DirectionalLights : l.name = n

LightPassModes == <<FALSE, "NONE", "BACK", "ONE__ONE">>

\* the calls of a log that bind or clear a target, set GPU state or bind a texture
Rebinds(log) ==
    {i \in 1..Len(log) :
        log[i][1] \in {"bind", "clear", "depth_write", "depth_test", "cull",
                       "blend", "texture_bind"}}

\* C13: a successful light_pass_begin leaves depth write off, depth test
\* NONE, cull BACK, blend ONE__ONE and the bound target cleared; every
\* shine_directional_light call leaves the bound target, the depth, cull and
\* blend state and the sampler slots as they were and clears nothing, and in
\* the light-pass state a successful one adds its light's contribution to
\* what the bound target holds (a failing one adds nothing), so the lights
\* shone after light_pass_begin accumulate as their sum.
C13_LightsAccumulate ==
    [][/\ (lastCall'.op = "light_pass_begin" /\ lastCall'.result = Ok) =>
            /\ Modes(gl') = LightPassModes
            /\ gl'.fb[gl'.bound] = 0
       /\ lastCall'.op = "shine_directional_light" =>
            /\ gl'.bound = gl.bound
            /\ Modes(gl') = Modes(gl)
            /\ gl'.slots = gl.slots
            /\ Rebinds(lastCall'.log) = {}
            /\ \A t \in DOMAIN gl.fb \ {gl.bound} : gl'.fb[t] = gl.fb[t]
            /\ Modes(gl) = LightPassModes =>
                  gl'.fb[gl.bound] =
                      gl.fb[gl.bound] +
                      (IF lastCall'.result = Ok
                       THEN LightNamed(lastCall'.args.light).diffuse_intensity
                       ELSE 0)
      ]_vars

\* after light_pass_begin, L1 and L2 were shone: the target holds 1 + 2
C13_Witness ==
    /\ Returned("shine_directional_light", Ok)
    /\ Modes(gl) = LightPassModes
    /\ gl.bound = light_pass_target(P)
    /\ gl.fb[gl.bound] = 3

\* C14: ForwardPipeline::render_pass_begin always returns Ok and leaves the
\* screen render target bound and cleared; ForwardPipeline::resize(w, h), when
\* it succeeds, replaces the screen target by a new one of size (w, h) and
\* sets width and height to (w, h), and when the allocation fails it returns
\* a Rendertarget error and leaves the screen target, width and height as
\* they were.
C14_ForwardPipeline ==
    [][/\ lastCall'.op = "render_pass_begin" =>
            /\ lastCall'.result = Ok
            /\ pipeline' = pipeline
            /\ gl'.bound = P.rendertarget.id
            /\ gl'.fb[P.rendertarget.id] = 0
            /\ lastCall'.log = <<Bind(P.rendertarget.id), Clear(P.rendertarget.id)>>
       /\ (lastCall'.op = "resize" /\ lastCall'.result = Ok) =>
            LET q == Unwrap(pipeline')
            IN  /\ q.width = lastCall'.args.width
                /\ q.height = lastCall'.args.height
                /\ q.rendertarget.width = lastCall'.args.width
                /\ q.rendertarget.height = lastCall'.args.height
                /\ q.rendertarget.id >= nextId
                /\ q.rendertarget.id # P.rendertarget.id
       /\ (lastCall'.op = "resize" /\ lastCall'.result # Ok) =>
            /\ lastCall'.result = "Rendertarget"
            /\ pipeline' = pipeline
      ]_vars

\* a resize back to 800x600 has failed on a forward pipeline that had been
\* resized to 1024x768 and had begun a render pass
C14_Witness ==
    /\ Live
    /\ Returned("resize", "Rendertarget")
    /\ lastCall.args.width = 800
    /\ P.width = 1024 /\ P.height = 768
    /\ P.rendertarget.width = 1024
    /\ Unwrap(built).width = 800
    /\ gl.bound = P.rendertarget.id

PassBegins == {"geometry_pass_begin", "shadow_cast_begin", "light_pass_begin"}

\* C15: geometry_pass_begin, shadow_cast_begin and light_pass_begin issue no
\* draw call, and making the same call once more changes nothing: the bound
\* target, depth write and test, cull mode, blend mode, sampler slots, program
\* uniforms and target contents after the second call are those after the
\* first.
C15_BeginIdempotent ==
    [][lastCall'.op \in PassBegins =>
          /\ Draws(lastCall'.log) = 0
          /\ Run(gl', lastCall'.log) = gl'
          /\ lastCall'.again => gl' = gl
      ]_vars

\* light_pass_begin has just been called successfully for the second time in
\* a row with the same camera, in a state the first call had to change
C15_Witness ==
    /\ Live /\ Buffered
    /\ Returned("light_pass_begin", Ok)
    /\ lastCall.again
    /\ ncalls = MaxCalls
    /\ lastCall.args.camera = 2
    /\ gl.slots[0].target = P.geometry_pass_rendertarget.id
    /\ gl.bound = Unwrap(P.light_pass_rendertarget).id

\* the uniforms shine_directional_light is to set, in order, and their values
ShineNames ==
    <<"lightType", "directionalLight.direction", "directionalLight.base.color",
      "directionalLight.base.ambientIntensity",
      "directionalLight.base.diffuseIntensity">>
ShineValues(l) ==
    <<1, l.direction, l.color, l.ambient_intensity, l.diffuse_intensity>>

\* C16: shine_directional_light sets lightType = 1, then the light's
\* direction, base color, ambient intensity and diffuse intensity on the
\* light program, in that order and stopping at the first set that fails; it
\* returns the Program error and has issued no draw if one failed, and
\* otherwise has issued exactly one draw, with the light program, after the
\* five sets, and returns Ok.
C16_ShineDirectionalLight ==
    lastCall.op = "shine_directional_light" =>
        LET log == lastCall.log
            n == IF Len(log) < 5 THEN Len(log) ELSE 5
        IN  /\ Len(log) \in 1..6
            /\ \A i \in 1..n :
                  /\ log[i][1] = "add_uniform"
                  /\ log[i][2] = P.light_pass_program.id
                  /\ log[i][3] = ShineNames[i]
                  /\ log[i][4] = ShineValues(LastLight)[i]
            /\ \A i \in 1..(n - 1) : log[i][5]
            /\ lastCall.result \in {Ok, "Program"}
            /\ lastCall.result = Ok =>
                  /\ Len(log) = 6
                  /\ log[5][5]
                  /\ log[6] = <<"render", P.light_pass_program.id, LightPassPath>>
                  /\ Draws(log) = 1
                  /\ \A i \in 1..5 : LightUniforms[ShineNames[i]] = ShineValues(LastLight)[i]
            /\ lastCall.result = "Program" =>
                  /\ Len(log) <= 5
                  /\ ~log[Len(log)][5]
                  /\ Draws(log) = 0

\* light L2 failed at its base color after light L1 had been shone: the
\* direction is L2's, the color is still L1's
C16_Witness ==
    /\ Live
    /\ Returned("shine_directional_light", "Program")
    /\ lastCall.args.light = "L2"
    /\ Len(lastCall.log) = 3
    /\ LightUniforms["lightType"] = 1
    /\ LightUniforms["directionalLight.direction"] = 4
    /\ LightUniforms["directionalLight.base.color"] = 5
    /\ LightUniforms["directionalLight.base.diffuseIntensity"] = 1

\* the uniforms light_pass_begin is to set, in order
LightPassNames == <<"colorMap", "positionMap", "normalMap", "depthMap", "eyePosition">>

\* the positions of a log at which a uniform was set or failed to be set
UniformSets(log) == {i \in 1..Len(log) : log[i][1] = "add_uniform"}

\* C17: a light_pass_begin that returns the Program error has stopped at the
\* first uniform set that failed: the sets before it succeeded, no call
\* follows it, and no sampler slot beyond those of the uniforms reached has
\* been touched.  What it did before is in effect: the light-pass target, or
\* the screen target without buffering, is bound and cleared, and the state
\* is depth write off, depth test NONE, cull BACK, blend ONE__ONE.
C17_LightPassBeginFails ==
    [][(lastCall'.op = "light_pass_begin" /\ lastCall'.result # Ok) =>
          LET log == lastCall'.log
              k == Cardinality(UniformSets(log))
              target == IF IsSome(P.light_pass_rendertarget)
                        THEN Unwrap(P.light_pass_rendertarget).id
                        ELSE P.rendertarget.id
          IN  /\ lastCall'.result = "Program"
              /\ k \in 1..5
              /\ log[Len(log)][1] = "add_uniform"
              /\ log[Len(log)][3] = LightPassNames[k]
              /\ \A i \in UniformSets(log) : log[i][5] <=> i # Len(log)
              /\ \A s \in Slots : s >= k => gl'.slots[s] = gl.slots[s]
              /\ \A s \in Slots : s < k =>
                    /\ gl'.slots[s].target = P.geometry_pass_rendertarget.id
                    /\ gl'.slots[s].attachment = (IF s = 3 THEN DepthAttachment ELSE s)
              /\ \A i \in k..5 :
                    gl'.uniforms[P.light_pass_program.id][LightPassNames[i]]
                        = gl.uniforms[P.light_pass_program.id][LightPassNames[i]]
              /\ SubSeq(log, 1, 2) = <<Bind(target), Clear(target)>>
              /\ gl'.bound = target
              /\ gl'.fb[target] = 0
              /\ Modes(gl') = LightPassModes
      ]_vars

\* without buffering, light_pass_begin failed at positionMap: slots 0 and 1
\* hold geometry textures, slots 2 and 3 hold none, colorMap is set and
\* positionMap is not, the screen target is bound and the state is that of
\* the light pass
C17_Witness ==
    /\ Live /\ ~Buffered
    /\ Returned("light_pass_begin", "Program")
    /\ Len(lastCall.log) = 10
    /\ gl.slots[1].target = P.geometry_pass_rendertarget.id
    /\ gl.slots[2] = NoTexture
    /\ gl.slots[3] = NoTexture
    /\ LightUniforms["colorMap"] = 0
    /\ LightUniforms["positionMap"] = Unset
    /\ gl.bound = P.rendertarget.id
    /\ Modes(gl) = LightPassModes

AvailabilityErrors ==
    {"LightPassRendertargetNotAvailable", "ShadowRendertargetNotAvailable"}

\* C18: shadow_cast_begin for a light without a shadow target and
\* copy_to_screen on a pipeline without buffering fail with their availability
\* error, and a call that fails with an availability error has made no call
\* on the GPU: the bound target, depth write and test, cull mode, blend mode,
\* sampler slots, program uniforms and the contents of every target are as
\* before, nothing was cleared or drawn, and the pipeline is unchanged.
C18_AvailabilityNoEffect ==
    [][/\ (/\ lastCall'.op = "shadow_cast_begin"
           /\ ~IsSome(LightNamed(lastCall'.args.light).shadow_render_target)) =>
              lastCall'.result = "ShadowRendertargetNotAvailable"
       /\ (lastCall'.op = "copy_to_screen" /\ ~Buffered) =>
              lastCall'.result = "LightPassRendertargetNotAvailable"
       /\ (/\ lastCall'.op \in {"shadow_cast_begin", "copy_to_screen"}
           /\ lastCall'.result \in AvailabilityErrors) =>
              /\ lastCall'.log = <<>>
              /\ gl' = gl
              /\ pipeline' = pipeline
      ]_vars

\* copy_to_screen has failed for lack of buffering in the middle of a light
\* pass: the screen target still holds the light drawn into it and the state
\* is still that of the light pass
C18_Witness ==
    /\ Live /\ ~Buffered
    /\ Returned("copy_to_screen", "LightPassRendertargetNotAvailable")
    /\ lastCall.log = <<>>
    /\ gl.bound = P.rendertarget.id
    /\ gl.fb[P.rendertarget.id] > 0
    /\ Modes(gl) = LightPassModes
    /\ gl.slots[3].target = P.geometry_pass_rendertarget.id

PassOps ==
    {"geometry_pass_begin", "shadow_cast_begin", "light_pass_begin",
     "shine_directional_light", "copy_to_screen"}

\* the bound target and the depth, cull and blend state of a context
View(g) == <<g.bound, Modes(g)>>

\* the context g as it would be had no pass operation been called on it
Fresh(g) ==
    [g EXCEPT !.bound = DefaultTarget, !.depth_write = TRUE,
              !.depth_test = "NONE", !.cull = "NONE", !.blend = "NONE"]

\* the result of a pass call as the construction flag, the call's arguments
\* and the results of its collaborator calls determine it
Determined(call) ==
    IF /\ call.op = "shadow_cast_begin"
       /\ ~IsSome(LightNamed(call.args.light).shadow_render_target)
    THEN "ShadowRendertargetNotAvailable"
    ELSE IF call.op = "copy_to_screen" /\ ~Buffered
    THEN "LightPassRendertargetNotAvailable"
    ELSE IF \E i \in UniformSets(call.log) : ~call.log[i][5]
    THEN "Program"
    ELSE Ok

\* C19 as stated: after each of the five pass operations the bound target and
\* the depth, cull and blend state are what the same call, with the same
\* collaborator results, leaves when it is the first pass operation on the
\* pipeline; what was called before makes no difference.
C19_StateIgnoresHistory ==
    lastCall.op \in PassOps =>
        View(gl) = View(Run(Fresh(gl), lastCall.log))

\* C19, amended: the result (Ok or which error) of each of the five pass
\* operations is the one the construction flag, the arguments and the
\* collaborator results determine, whatever was called before, so no call is
\* rejected for being out of sequence.  The bound target and the depth, cull
\* and blend state after geometry_pass_begin, light_pass_begin, a successful
\* shadow_cast_begin and a copy_to_screen on a buffered pipeline are likewise
\* independent of the calls before; shine_directional_light, and a
\* shadow_cast_begin or copy_to_screen that fails with an availability error,
\* leave them as the calls before left them.
C19_NoSequenceCheck ==
    [][lastCall'.op \in PassOps =>
          /\ lastCall'.result = Determined(lastCall')
          /\ IF \/ lastCall'.op = "shine_directional_light"
                \/ lastCall'.result \in AvailabilityErrors
             THEN View(gl') = View(gl)
             ELSE View(gl') = View(Run(Fresh(gl'), lastCall'.log))
      ]_vars

\* a light has been shone with Ok right after geometry_pass_begin, with no
\* light_pass_begin in between: the geometry target is still bound and the
\* state is still that of the geometry pass
C19_Witness ==
    /\ Live
    /\ Returned("shine_directional_light", Ok)
    /\ gl.bound = P.geometry_pass_rendertarget.id
    /\ Modes(gl) = <<TRUE, "LEQUAL", "NONE", "NONE">>
    /\ gl.fb[P.geometry_pass_rendertarget.id] > 0

====
